---------------------------- MODULE Spec2Model ----------------------------
(***************************************************************************)
(* Model of seminars/ranges.cpp: main() is a straight-line program over     *)
(* std::cin, std::cout and a few locals.  Standard input is a sequence of   *)
(* whitespace-separated tokens; `points` is the lazy pipeline               *)
(*   views::istream<Point>(std::cin) | filter(x < 20) | transform(...)      *)
(* and every statement of main() is one action, the two rng::copy loops and *)
(* the range-for loop being unrolled into begin / step / end actions.       *)
(***************************************************************************)
EXTENDS Integers, Sequences, FiniteSets, TLC

VARIABLES
    input,          \* the tokens on standard input (never changes)
    cin,            \* std::cin: [pos |-> tokens consumed, fail |-> failbit]
    value,          \* basic_istream_view<Point>::value_, the element last read
    stdout,         \* lines written to std::cout
    cached_points,  \* std::vector<Point3> cached_points
    before,         \* <<>>, or <<[by, content]>>: the last sort statement run and
                    \* cached_points as it was when that sort started
    iotaVal,        \* the iota iterator under the range-for loop
    takeLeft,       \* the take_view iterator's remaining count
    legit_iter,     \* position found in vvv | reverse | drop(1); Len+1 is end()
    string_view_iter, \* position found in string_view("abacaba")
    pc              \* the statement main() is at

vars == <<input, cin, value, stdout, cached_points, before, iotaVal, takeLeft,
          legit_iter, string_view_iter, pc>>

----------------------------------------------------------------------------
\* Bounds of the model.
MaxLen == 6          \* longest standard input, in tokens
MaxSortLen == 3      \* longest cached_points the sorts are tried on

\* Tokens that can stand on standard input: three numerals and one word
\* that operator>>(float&) cannot parse.
NumTokens == {"-3", "19", "20"}
BadToken == "zz"
Tokens == NumTokens \cup {BadToken}

\* What num_get makes of a numeral.
ParseFloat(tok) ==
    CASE tok = "-3" -> 0 - 3
      [] tok = "19" -> 19
      [] tok = "20" -> 20

RECURSIVE SeqsUpTo(_, _)
SeqsUpTo(S, n) ==
    IF n = 0 THEN {<<>>}
    ELSE LET shorter == SeqsUpTo(S, n - 1)
         IN  shorter \cup {Append(s, e) : s \in {t \in shorter : Len(t) = n - 1}, e \in S}

----------------------------------------------------------------------------
\* struct Point, struct Point3
MkPoint(x, y) == [x |-> x, y |-> y]
MkPoint3(x, y, z) == [x |-> x, y |-> y, z |-> z]

\* A line of std::cout: print(name, item) writes "name: item", print(item)
\* writes the item, ostream_iterator<Point3> writes "x y z".
LabelLine(name, text, nums) == [kind |-> "label", name |-> name, text |-> text, f |-> nums]
PlainLine(text) == [kind |-> "plain", name |-> "", text |-> text, f |-> <<>>]

\* Mutant of FormatPoint3: the fields written in the order x z y.
FormatPoint3_xzy(point) ==
    [kind |-> "triple", name |-> "", text |-> "", f |-> <<point.x, point.z, point.y>>]

\* operator<<(std::ostream&, const Point3&): the three fields in order x y z.
FormatPoint3(point) ==
    [kind |-> "triple", name |-> "", text |-> "", f |-> <<point.x, point.y, point.z>>]

\* Mutant of ExtractFloat: the failed state does not stick (the stream is
\* cleared and the offending word skipped before each extraction).
ExtractFloat_retry(st, old) ==
    IF st.pos >= Len(input) THEN [st |-> [st EXCEPT !.fail = TRUE], val |-> old]
    ELSE IF input[st.pos + 1] \notin NumTokens
         THEN [st |-> [pos |-> st.pos + 1, fail |-> TRUE], val |-> 0]
    ELSE [st |-> [pos |-> st.pos + 1, fail |-> FALSE], val |-> ParseFloat(input[st.pos + 1])]

\* istream >> float: nothing happens on a failed stream; at end of input
\* the sentry sets failbit and leaves the target alone; a word that is no
\* number sets failbit and stores 0; a numeral is consumed and stored.
ExtractFloat(st, old) ==
    IF st.fail THEN [st |-> st, val |-> old]
    ELSE IF st.pos >= Len(input) THEN [st |-> [st EXCEPT !.fail = TRUE], val |-> old]
    ELSE IF input[st.pos + 1] \notin NumTokens
         THEN [st |-> [st EXCEPT !.fail = TRUE], val |-> 0]
    ELSE [st |-> [st EXCEPT !.pos = st.pos + 1], val |-> ParseFloat(input[st.pos + 1])]

\* operator>>(std::istream&, Point&): istr >> point.x >> point.y
ExtractPoint(st, point) ==
    LET rx == ExtractFloat(st, point.x)
        ry == ExtractFloat(rx.st, point.y)
    IN  [st |-> ry.st, val |-> MkPoint(rx.val, ry.val)]

\* Mutant of IstreamView: the view reads its first element when constructed.
IstreamView_eager(st, point) == ExtractPoint(st, point)

\* views::istream<Point>(std::cin): constructing the view touches nothing.
IstreamView(st, point) == [st |-> st, val |-> point]

\* Mutant of FilterPred: x <= 20 passes.
FilterPred_inclusive(v) == v.x <= 20

\* The filter lambda of `points`.
Threshold == 20
FilterPred(v) == v.x < Threshold

\* Mutant of Transform: the product stored in the third field.
Transform_productLast(v) == MkPoint3(v.x, v.y, v.x * v.y)

\* The transform lambda of `points`.
Transform(v) == MkPoint3(v.x, v.x * v.y, v.y)

\* filter_view: advance the istream iterator (one extraction per step)
\* until it is at end() or the element satisfies the predicate.
RECURSIVE FindIf(_)
FindIf(r) ==
    IF r.st.fail \/ FilterPred(r.val) THEN r
    ELSE FindIf(ExtractPoint(r.st, r.val))

\* points.begin(): the istream view reads its first element, the filter
\* view searches from there (an input range caches nothing).
PointsBegin(st, point) == FindIf(ExtractPoint(st, point))

\* ++ on the pipeline's iterator.
PointsNext(r) == FindIf(ExtractPoint(r.st, r.val))

\* ranges::next(it, n, end) as drop_view::begin() uses it.
RECURSIVE RangesNext(_, _)
RangesNext(r, n) ==
    IF n = 0 \/ r.st.fail THEN r ELSE RangesNext(PointsNext(r), n - 1)

\* Mutant of DropCount: the first traversal drops nothing.
DropCount_none == 1 - 1

\* views::drop(1) of the first traversal.
DropCount == 1
DropBegin(st, point) == RangesNext(PointsBegin(st, point), DropCount)

----------------------------------------------------------------------------
TypeOK ==
    /\ input \in Seq(Tokens)
    /\ cin.pos \in 0..Len(input)
    /\ cin.fail \in BOOLEAN

\* The state at the opening brace of main(), standard input being one of
\* `inputs`.
InitWith(inputs) ==
    /\ input \in inputs
    /\ cin = [pos |-> 0, fail |-> FALSE]
    /\ value = MkPoint(0, 0)
    /\ stdout = <<>>
    /\ cached_points = <<>>
    /\ before = <<>>
    /\ iotaVal = 0
    /\ takeLeft = 0
    /\ legit_iter = 0
    /\ string_view_iter = 0
    /\ pc = "define"

Init == InitWith(SeqsUpTo(Tokens, MaxLen))

\* ranges.cpp:34-40
DefinePoints ==
    /\ pc = "define"
    /\ LET r == IstreamView(cin, value)
       IN  cin' = r.st /\ value' = r.val
    /\ pc' = "types"
    /\ UNCHANGED <<input, stdout, cached_points, before, iotaVal, takeLeft,
                   legit_iter, string_view_iter>>

\* ranges.cpp:43-48: type_of(x) is type_name<decltype(x)>(); the operand of
\* decltype is not evaluated, so points.base().base() is never called.
PrintTypes ==
    /\ pc = "types"
    /\ stdout' = stdout \o <<LabelLine("points type", "type", <<>>), PlainLine(""),
                             LabelLine("points base.base", "type", <<>>), PlainLine("")>>
    /\ pc' = "copy1_begin"
    /\ UNCHANGED <<input, cin, value, cached_points, before, iotaVal, takeLeft,
                   legit_iter, string_view_iter>>

\* ranges.cpp:53 and :59, rng::copy(r, out): it = ranges::begin(r).  The
\* first call traverses points | views::drop(1), the second points itself.
RngCopyBegin ==
    /\ pc \in {"copy1_begin", "copy2_begin"}
    /\ LET r == IF pc = "copy1_begin" THEN DropBegin(cin, value)
                ELSE PointsBegin(cin, value)
       IN  cin' = r.st /\ value' = r.val
    /\ pc' = IF pc = "copy1_begin" THEN "copy1" ELSE "copy2"
    /\ UNCHANGED <<input, stdout, cached_points, before, iotaVal, takeLeft,
                   legit_iter, string_view_iter>>

\* rng::copy, loop body: *out++ = *it; ++it.  The iterator is at end() when
\* the stream has failed.  Line 53 writes through ostream_iterator<Point3>
\* (delimiter "\n"), line 59 through back_inserter(cached_points).
RngCopyStep ==
    /\ pc \in {"copy1", "copy2"}
    /\ ~cin.fail
    /\ IF pc = "copy1"
       THEN /\ stdout' = Append(stdout, FormatPoint3(Transform(value)))
            /\ UNCHANGED cached_points
       ELSE /\ cached_points' = Append(cached_points, Transform(value))
            /\ UNCHANGED stdout
    /\ LET r == PointsNext([st |-> cin, val |-> value])
       IN  cin' = r.st /\ value' = r.val
    /\ UNCHANGED <<input, before, iotaVal, takeLeft, legit_iter, string_view_iter, pc>>

\* rng::copy, loop exit: it == end().
RngCopyEnd ==
    /\ pc \in {"copy1", "copy2"}
    /\ cin.fail
    /\ pc' = IF pc = "copy1" THEN "copy2_begin" ELSE "itertypes"
    /\ UNCHANGED <<input, cin, value, stdout, cached_points, before, iotaVal,
                   takeLeft, legit_iter, string_view_iter>>

\* ranges.cpp:61-64: again only decltype(points.begin()), nothing is read.
PrintIterTypes ==
    /\ pc = "itertypes"
    /\ stdout' = stdout \o <<LabelLine("type of points.begin()", "type", <<>>), PlainLine(""),
                             LabelLine("type of points.end()", "type", <<>>), PlainLine("")>>
    /\ pc' = "iota_begin"
    /\ UNCHANGED <<input, cin, value, cached_points, before, iotaVal, takeLeft,
                   legit_iter, string_view_iter>>

----------------------------------------------------------------------------
\* ranges.cpp:73-77: views::iota(0) | filter | transform | drop(2) | take(20)
IotaStart == 0
IotaDrop == 2
IotaTake == 20

\* Mutant of IotaPred: only even values pass.
IotaPred_even(v) == v % 2 = 0

\* [](int v) {return v % 1 == 0;}
IotaPred(v) == v % 1 = 0

\* [](int v) {return v * v;}
Square(v) == v * v

\* filter_view over the unbounded iota: first value from v on that passes.
RECURSIVE IotaFind(_)
IotaFind(v) == IF IotaPred(v) THEN v ELSE IotaFind(v + 1)

\* ++ on the filter iterator.
IotaNext(v) == IotaFind(v + 1)

\* drop_view::begin(): ranges::next(begin, n, end), end being unreachable.
RECURSIVE IotaAdvance(_, _)
IotaAdvance(v, n) == IF n = 0 THEN v ELSE IotaAdvance(IotaNext(v), n - 1)

\* Range-for, begin(): take_view wraps drop_view's begin in a
\* counted_iterator holding the count.
IotaBegin ==
    /\ pc = "iota_begin"
    /\ iotaVal' = IotaAdvance(IotaFind(IotaStart), IotaDrop)
    /\ takeLeft' = IotaTake
    /\ pc' = "iota_loop"
    /\ UNCHANGED <<input, cin, value, stdout, cached_points, before,
                   legit_iter, string_view_iter>>

\* Range-for body, ranges.cpp:78, then ++ on the counted_iterator
\* (++current; --length).
IotaStep ==
    /\ pc = "iota_loop"
    /\ takeLeft # 0
    /\ stdout' = Append(stdout, LabelLine("item", "", <<Square(iotaVal)>>))
    /\ iotaVal' = IotaNext(iotaVal)
    /\ takeLeft' = takeLeft - 1
    /\ UNCHANGED <<input, cin, value, cached_points, before, legit_iter,
                   string_view_iter, pc>>

\* Range-for exit: the take_view sentinel compares equal when the count is 0.
IotaEnd ==
    /\ pc = "iota_loop"
    /\ takeLeft = 0
    /\ pc' = "find_dangling"
    /\ UNCHANGED <<input, cin, value, stdout, cached_points, before, iotaVal,
                   takeLeft, legit_iter, string_view_iter>>

----------------------------------------------------------------------------
\* std::vector<int> vvv{1, 2, 3};
vvv == <<1, 2, 3>>

\* std::string_view("abacaba")
Abacaba == <<"a", "b", "a", "c", "a", "b", "a">>

\* views::reverse
Reverse(s) == [i \in 1..Len(s) |-> s[Len(s) + 1 - i]]

\* views::drop(n) over a sized random-access range
Drop(s, n) == IF n >= Len(s) THEN <<>> ELSE SubSeq(s, n + 1, Len(s))

\* rng::find: the first position holding v, or end() (Len + 1)
RngFind(s, v) ==
    IF \E i \in 1..Len(s) : s[i] = v
    THEN CHOOSE i \in 1..Len(s) : s[i] = v /\ \A j \in 1..(i - 1) : s[j] # v
    ELSE Len(s) + 1

\* vvv | views::reverse | views::drop(1)
LegitDrop == 1
LegitView == Drop(Reverse(vvv), LegitDrop)

\* What reading one int before the vector's storage can give.
GarbageInts == {0, 33}

\* ranges.cpp:83-88: rng::find on an rvalue vector returns
\* std::ranges::dangling; only its type name is printed.
FindDangling ==
    /\ pc = "find_dangling"
    /\ stdout' = Append(stdout, LabelLine("ub_iter", "type", <<>>))
    /\ pc' = "find_legit"
    /\ UNCHANGED <<input, cin, value, cached_points, before, iotaVal, takeLeft,
                   legit_iter, string_view_iter>>

\* ranges.cpp:94-96
FindLegit ==
    /\ pc = "find_legit"
    /\ legit_iter' = RngFind(LegitView, 3)
    /\ pc' = "find_sv"
    /\ UNCHANGED <<input, cin, value, stdout, cached_points, before, iotaVal,
                   takeLeft, string_view_iter>>

\* ranges.cpp:103
FindStringView ==
    /\ pc = "find_sv"
    /\ string_view_iter' = RngFind(Abacaba, "c")
    /\ pc' = "print_legit"
    /\ UNCHANGED <<input, cin, value, stdout, cached_points, before, iotaVal,
                   takeLeft, legit_iter>>

\* ranges.cpp:107, print("legit", *legit_iter).  Dereferencing end() of the
\* reversed view reads vvv.begin()[-1]: undefined behaviour, which a build
\* turns into some int being printed or into an abort (checked iterators,
\* sanitizers).
PrintLegit ==
    /\ pc = "print_legit"
    /\ IF legit_iter \in 1..Len(LegitView)
       THEN /\ stdout' = Append(stdout, LabelLine("legit", "", <<LegitView[legit_iter]>>))
            /\ pc' = "print_sv"
       ELSE \/ \E g \in GarbageInts :
                 /\ stdout' = Append(stdout, LabelLine("legit", "", <<g>>))
                 /\ pc' = "print_sv"
            \/ /\ pc' = "aborted"
               /\ UNCHANGED stdout
    /\ UNCHANGED <<input, cin, value, cached_points, before, iotaVal, takeLeft,
                   legit_iter, string_view_iter>>

\* ranges.cpp:108
PrintStringViewIter ==
    /\ pc = "print_sv"
    /\ string_view_iter \in 1..Len(Abacaba)
    /\ stdout' = Append(stdout, LabelLine("string_view_iter", Abacaba[string_view_iter], <<>>))
    /\ pc' = "sort1"
    /\ UNCHANGED <<input, cin, value, cached_points, before, iotaVal, takeLeft,
                   legit_iter, string_view_iter>>

----------------------------------------------------------------------------
\* Mutant of CompZ: the comparison reads the x field.
CompZ_byX(a, b) == a.x < b.x

\* [](const Point3& a, const Point3& b) { return a.z < b.z; }
CompZ(a, b) == a.z < b.z

\* [](Point3 value) {return value.z;}
ProjLambda(v) == v.z

\* &Point3::z
ProjMember(v) == v.z

\* std::ranges::less, the default comparator ({}) of rng::sort
RangesLess(a, b) == a < b

\* The elements of a sequence.
Elems(s) == {s[i] : i \in 1..Len(s)}

\* Linear insertion of e into the sorted run t: e goes right after the last
\* element it is not less than.  less[a, b] is the comparison the sort was
\* given, tabulated over the elements.
LinearInsert(t, e, less) ==
    LET stay == {j \in 1..Len(t) : ~less[e, t[j]]}
        p == IF stay = {} THEN 0 ELSE CHOOSE j \in stay : \A k \in stay : k <= j
    IN  SubSeq(t, 1, p) \o <<e>> \o SubSeq(t, p + 1, Len(t))

\* The sort of a short range (below the library's introsort threshold the
\* whole sort is one insertion sort).
InsertionSort(s, less) ==
    LET run[i \in 0..Len(s)] ==
            IF i = 0 THEN <<>> ELSE LinearInsert(run[i - 1], s[i], less)
    IN  run[Len(s)]

\* ranges.cpp:113-115
StdSort ==
    /\ pc = "sort1"
    /\ before' = <<[by |-> "std::sort", content |-> cached_points]>>
    /\ cached_points' = InsertionSort(cached_points,
                            [a \in Elems(cached_points), b \in Elems(cached_points) |-> CompZ(a, b)])
    /\ pc' = "sort2"
    /\ UNCHANGED <<input, cin, value, stdout, iotaVal, takeLeft, legit_iter,
                   string_view_iter>>

\* ranges.cpp:117
RngSortLambda ==
    /\ pc = "sort2"
    /\ before' = <<[by |-> "rng::sort lambda", content |-> cached_points]>>
    /\ cached_points' = InsertionSort(cached_points,
                            [a \in Elems(cached_points), b \in Elems(cached_points) |->
                                RangesLess(ProjLambda(a), ProjLambda(b))])
    /\ pc' = "sort3"
    /\ UNCHANGED <<input, cin, value, stdout, iotaVal, takeLeft, legit_iter,
                   string_view_iter>>

\* ranges.cpp:119
RngSortMember ==
    /\ pc = "sort3"
    /\ before' = <<[by |-> "rng::sort member", content |-> cached_points]>>
    /\ cached_points' = InsertionSort(cached_points,
                            [a \in Elems(cached_points), b \in Elems(cached_points) |->
                                RangesLess(ProjMember(a), ProjMember(b))])
    /\ pc' = "return"
    /\ UNCHANGED <<input, cin, value, stdout, iotaVal, takeLeft, legit_iter,
                   string_view_iter>>

\* ranges.cpp:126-139: the two lambdas are only defined; main returns 0.
Return ==
    /\ pc = "return"
    /\ pc' = "done"
    /\ UNCHANGED <<input, cin, value, stdout, cached_points, before, iotaVal,
                   takeLeft, legit_iter, string_view_iter>>

Next ==
    \/ DefinePoints
    \/ PrintTypes
    \/ RngCopyBegin
    \/ RngCopyStep
    \/ RngCopyEnd
    \/ PrintIterTypes
    \/ IotaBegin
    \/ IotaStep
    \/ IotaEnd
    \/ FindDangling
    \/ FindLegit
    \/ FindStringView
    \/ PrintLegit
    \/ PrintStringViewIter
    \/ StdSort
    \/ RngSortLambda
    \/ RngSortMember
    \/ Return

Spec == Init /\ [][Next]_vars

\* main() runs on one thread and every statement completes: a step that
\* can be taken is taken.  The range-for loop reads no input, so the fair
\* runs are taken over a few well-formed inputs only.
MaxLoopInput == 4
FairInit == InitWith(SeqsUpTo({"-3", "19"}, MaxLoopInput))
FairSpec == FairInit /\ [][Next]_vars /\ WF_vars(Next)

----------------------------------------------------------------------------
\* The sorts on any content of cached_points: the vector is drawn from the
\* Point3 values below and each of the three sort statements is applied.
SortPoints == {MkPoint3(x, 0, z) : x \in {1, 2}, z \in {0 - 3, 19, 20}}

SortInit ==
    /\ input = <<>>
    /\ cin = [pos |-> 0, fail |-> TRUE]
    /\ value = MkPoint(0, 0)
    /\ stdout = <<>>
    /\ cached_points \in SeqsUpTo(SortPoints, MaxSortLen)
    /\ before = <<>>
    /\ iotaVal = 0
    /\ takeLeft = 0
    /\ legit_iter = 0
    /\ string_view_iter = 0
    /\ pc \in {"sort1", "sort2", "sort3"}

SortNext == StdSort \/ RngSortLambda \/ RngSortMember

SortSpec == SortInit /\ [][SortNext]_vars
----------------------------------------------------------------------------
\* Vocabulary of the properties below.

\* The statements of main() in program order; "aborted" is abnormal
\* termination.
PcOrder == <<"define", "types", "copy1_begin", "copy1", "copy2_begin", "copy2",
             "itertypes", "iota_begin", "iota_loop", "find_dangling", "find_legit",
             "find_sv", "print_legit", "print_sv", "sort1", "sort2", "sort3",
             "return", "done", "aborted">>
PcRank(p) == CHOOSE i \in 1..Len(PcOrder) : PcOrder[i] = p
After(p) == PcRank(pc) > PcRank(p)

\* The well-formed prefix of standard input, as pairs <<x, y>>: the tokens
\* before the first one that is no number, taken two by two.
NumPrefixLen ==
    IF \A i \in 1..Len(input) : input[i] \in NumTokens THEN Len(input)
    ELSE (CHOOSE i \in 1..Len(input) :
              /\ input[i] \notin NumTokens
              /\ \A j \in 1..(i - 1) : input[j] \in NumTokens) - 1
ValidPairs ==
    [k \in 1..(NumPrefixLen \div 2) |->
        <<ParseFloat(input[2 * k - 1]), ParseFloat(input[2 * k])>>]
PassesFilter(p) == p[1] < 20
Passing == SelectSeq(ValidPairs, PassesFilter)
Derived(p) == <<p[1], p[1] * p[2], p[2]>>
Malformed == NumPrefixLen < Len(input)

\* The triples on standard output, in the order written.
IsTriple(line) == line.kind = "triple"
TripleLines == SelectSeq(stdout, IsTriple)
Written == [i \in 1..Len(TripleLines) |-> TripleLines[i].f]
Cached == [i \in 1..Len(cached_points) |->
              <<cached_points[i].x, cached_points[i].y, cached_points[i].z>>]

\* The items the range-for loop has printed.
IsItem(line) == line.kind = "label" /\ line.name = "item"
ItemLines == SelectSeq(stdout, IsItem)
Items == [i \in 1..Len(ItemLines) |-> ItemLines[i].f[1]]

----------------------------------------------------------------------------
\* C1: every record the pipeline yields, written to standard output or
\* stored in cached_points, is (x, x*y, y) for a valid input pair (x, y):
\* first field x, second field the product, third field y; and the record
\* the iterator stands on is derived that way from the pair last read.
C1_DerivedRecord ==
    /\ \A i \in 1..Len(Written) :
          \E k \in 1..Len(ValidPairs) :
              /\ Written[i][1] = ValidPairs[k][1]
              /\ Written[i][2] = ValidPairs[k][1] * ValidPairs[k][2]
              /\ Written[i][3] = ValidPairs[k][2]
    /\ \A i \in 1..Len(Cached) :
          \E k \in 1..Len(ValidPairs) : Cached[i] = Derived(ValidPairs[k])
    /\ (pc \in {"copy1", "copy2"} /\ ~cin.fail) =>
          LET rec == Transform(value)
          IN  rec.x = value.x /\ rec.y = value.x * value.y /\ rec.z = value.y

\* A record with x = -3, y = 19 has been written as (-3, -57, 19).
C1_Witness ==
    \E i \in 1..Len(Written) : Written[i] = <<0 - 3, 0 - 57, 19>>

\* C2: no record with x >= 20 is ever written to standard output or stored
\* in cached_points, and the element a traversal stands on always has x < 20.
C2_FilterExcludes ==
    /\ \A i \in 1..Len(Written) : Written[i][1] < 20
    /\ \A i \in 1..Len(Cached) : Cached[i][1] < 20
    /\ (pc \in {"copy1", "copy2"} /\ ~cin.fail) => value.x < 20

\* The input held a valid pair with x >= 20 between passing pairs, the first
\* traversal is over and it wrote records.
C2_Witness ==
    /\ After("copy1")
    /\ Len(Written) >= 1
    /\ \E k \in 2..Len(ValidPairs) : ValidPairs[k][1] >= 20 /\ k < Len(ValidPairs)

\* C3, as stated: after the first traversal the triples on standard output
\* are the derived records of all input pairs that pass the filter, in
\* input order.
C3_Original ==
    After("copy1") => Written = [i \in 1..Len(Passing) |-> Derived(Passing[i])]

\* C3, amended: the triples written by the first traversal are, one triple
\* per line and in input order, the derived records of the pairs that pass
\* the filter except the first such pair; while the traversal runs they
\* are a prefix of that sequence.
C3_WrittenLines ==
    LET expect == [i \in 1..Len(Tail(Passing)) |-> Derived(Tail(Passing)[i])]
        tail == IF Passing = <<>> THEN <<>> ELSE expect
    IN  /\ \A i \in 1..Len(TripleLines) : Len(TripleLines[i].f) = 3
        /\ Len(Written) <= Len(tail)
        /\ Written = SubSeq(tail, 1, Len(Written))
        /\ After("copy1") => Written = tail

\* The first traversal is over and wrote two different lines.
C3_Witness ==
    /\ After("copy1")
    /\ Len(Written) = 2
    /\ Written[1] # Written[2]

\* C4: the second traversal of points starts on a stream that has already
\* failed, appends nothing, and cached_points is empty from then on.
C4_SecondTraversalEmpty ==
    /\ pc \in {"copy2_begin", "copy2"} => cin.fail
    /\ cached_points = <<>>

\* The second traversal is over, the first one wrote a record, and tokens
\* are left unread on standard input.
C4_Witness ==
    /\ pc = "itertypes"
    /\ Len(Written) >= 1
    /\ cin.pos < Len(input)

\* What C5 says about the records: on malformed input nothing at or after
\* the first unparsable token is consumed, the traversal that met it ends,
\* and every record comes from a pair before it.
C5_HaltsAtMalformed ==
    Malformed =>
        /\ cin.pos <= NumPrefixLen
        /\ After("copy1") => cin.fail /\ cin.pos = NumPrefixLen
        /\ Len(Written) + Len(Cached) <= Len(ValidPairs)
        /\ \A i \in 1..Len(Written) : \E k \in 1..Len(ValidPairs) : Written[i] = Derived(ValidPairs[k])

\* C5: on malformed input the pipeline halts at the first unparsable
\* token, no record at or after it is produced, and the program still
\* exits normally.
C5_MalformedHaltsAndExitsNormally ==
    /\ C5_HaltsAtMalformed
    /\ Malformed => pc # "aborted"

\* C6: until the first traversal starts, nothing has been read from standard
\* input: the stream is untouched while points is defined and its types
\* are printed, and the first extraction happens in the traversal's begin().
C6_Lazy ==
    /\ pc \in {"define", "types", "copy1_begin"} =>
          cin = [pos |-> 0, fail |-> FALSE] /\ value = MkPoint(0, 0)
    /\ pc = "copy1" => cin.pos > 0 \/ cin.fail

\* points is defined, its types are printed, pairs are waiting on standard
\* input and none has been read.
C6_Witness ==
    /\ pc = "copy1_begin"
    /\ Len(ValidPairs) >= 2
    /\ cin.pos = 0
    /\ Len(stdout) = 4

\* C7: after each of the three sort statements cached_points is in
\* non-decreasing order of z and is a permutation of what it was when the
\* sort started.
SortedByZ(s) == \A i, j \in 1..Len(s) : i < j => s[i].z <= s[j].z
Count(s, e) == Cardinality({i \in 1..Len(s) : s[i] = e})
IsPermutation(s, t) ==
    /\ Len(s) = Len(t)
    /\ \A i \in 1..Len(s) : Count(s, s[i]) = Count(t, s[i])
C7_SortsByZ ==
    before # <<>> =>
        /\ before[1].by \in {"std::sort", "rng::sort lambda", "rng::sort member"}
        /\ SortedByZ(cached_points)
        /\ IsPermutation(before[1].content, cached_points)

\* The member-pointer sort has run on three points that were in descending
\* order of z.
C7_Witness ==
    /\ before # <<>>
    /\ before[1].by = "rng::sort member"
    /\ Len(before[1].content) = 3
    /\ before[1].content[1].z > before[1].content[2].z
    /\ before[1].content[2].z > before[1].content[3].z
    /\ cached_points # before[1].content

\* C8: the range-for loop over the unbounded counter ends, and when it has
\* ended it has printed exactly 20 items, the k-th (k = 0..19) being
\* (k+2)^2: 4, 9, ..., 441; while it runs the items printed are a prefix
\* of these.
ExpectedItems == [k \in 1..20 |-> (k + 1) * (k + 1)]
C8_LoopTerminates ==
    /\ <>After("iota_loop")
    /\ [](After("iota_loop") => Items = ExpectedItems)
    /\ [](Len(Items) <= 20 /\ Items = SubSeq(ExpectedItems, 1, Len(Items)))

\* The loop has just ended with 20 items printed, the last one 441.
C8_Witness ==
    /\ pc = "find_dangling"
    /\ Len(Items) = 20
    /\ Items[1] = 4
    /\ Items[20] = 441

\* C9: once rng::find has returned, legit_iter is not end() and refers to
\* an element equal to 3 of vvv | reverse | drop(1).
C9_LegitIterValid ==
    After("find_legit") =>
        /\ legit_iter \in 1..Len(LegitView)
        /\ LegitView[legit_iter] = 3

\* C10: with n pairs passing the filter in the well-formed prefix, the first
\* traversal reads all of them and writes exactly max(0, n-1) lines, the
\* k-th line being the derived record of the (k+1)-th passing pair.
C10_FirstRecordDropped ==
    After("copy1") =>
        LET n == Len(Passing)
        IN  /\ cin.pos = NumPrefixLen
            /\ Len(Written) = (IF n = 0 THEN 0 ELSE n - 1)
            /\ \A k \in 1..Len(Written) : Written[k] = Derived(Passing[k + 1])

\* Three pairs passed the filter and only the second and third were written.
C10_Witness ==
    /\ After("copy1")
    /\ Len(Passing) = 3
    /\ Len(Written) = 2
    /\ Written[1] # Derived(Passing[1])
=============================================================================
